---------------------------- MODULE Spec2Model ----------------------------
(***************************************************************************)
(* Model of src/main.py: the gold signal bot.  The pure pipeline           *)
(* (liquidity_sweep, trend, confidence, build_trade) is modelled as        *)
(* operators over an exact model of float arithmetic (rationals, NaN,      *)
(* +-inf); run() is modelled as a state machine, one action per step of    *)
(* one loop cycle.                                                         *)
(***************************************************************************)
EXTENDS Integers, Sequences, FiniteSets

VARIABLES
    pc,           \* position of run(): "init", "loop", "kill_zone", "news", "trend", "build", "except"
    last_signal,  \* run()'s local last_signal: <<>> is None, else <<signal_id>>
    direction,    \* direction returned by trend() in the current cycle
    df,           \* <<m15 frame>> returned by trend() in the current cycle, <<>> before
    cyc,          \* what the current cycle has done so far (observation of the cycle)
    outbox,       \* kinds of the send_discord calls of the current cycle, in order
    trade,        \* <<build_trade result>> of the current cycle, <<>> before
    signals,      \* the (at most two) most recent signal notifications sent
    fn,           \* pure-function harness: the function under test
    arg,          \* pure-function harness: its arguments
    ret           \* pure-function harness: <<result>> once applied, <<>> before

vars == <<pc, last_signal, direction, df, cyc, outbox, trade, signals, fn, arg, ret>>

runVars == <<pc, last_signal, direction, df, cyc, outbox, trade, signals>>

fnVars == <<fn, arg, ret>>

-----------------------------------------------------------------------------
(* Program constants (CONFIG block and literals of main.py).               *)

RR_RATIO == 2

ACCOUNT_BALANCE == 10000

ROLL_WINDOW == 20

ADX_MIN == 25

BASE_SCORE == 50

SCORE_CAP == 100

CONF_THRESHOLD == 75

-----------------------------------------------------------------------------
(* Floats.  A float is NaN, +inf/-inf or an exact rational n/d (d > 0, in  *)
(* lowest terms).  Arithmetic and comparisons follow numpy.float64: no     *)
(* operation raises, x/0 is +-inf or NaN, every comparison with NaN is     *)
(* false.                                                                  *)

RECURSIVE GCD(_, _)
GCD(a, b) == IF b = 0 THEN a ELSE GCD(b, a % b)

IAbs(n) == IF n < 0 THEN -n ELSE n

ISign(n) == IF n > 0 THEN 1 ELSE IF n < 0 THEN -1 ELSE 0

Fin(n, d) ==
    LET s == IF d < 0 THEN -1 ELSE 1
        g == GCD(IAbs(n), IAbs(d))
    IN  [k |-> "fin", n |-> (s * n) \div g, d |-> (s * d) \div g]

NaN == [k |-> "nan", n |-> 0, d |-> 1]

Inf(s) == [k |-> "inf", n |-> s, d |-> 1]

IsNaN(x) == x.k = "nan"

IsFin(x) == x.k = "fin"

FSign(x) == ISign(x.n)

FNeg(x) == IF IsNaN(x) THEN NaN ELSE [x EXCEPT !.n = -x.n]

FAbs(x) == IF IsNaN(x) THEN NaN ELSE [x EXCEPT !.n = IAbs(x.n)]

FAdd(x, y) ==
    IF IsNaN(x) \/ IsNaN(y) THEN NaN
    ELSE IF IsFin(x) /\ IsFin(y) THEN Fin(x.n * y.d + y.n * x.d, x.d * y.d)
    ELSE IF IsFin(x) THEN y
    ELSE IF IsFin(y) THEN x
    ELSE IF x.n = y.n THEN x ELSE NaN

FSub(x, y) == FAdd(x, FNeg(y))

FMul(x, y) ==
    IF IsNaN(x) \/ IsNaN(y) THEN NaN
    ELSE IF IsFin(x) /\ IsFin(y) THEN Fin(x.n * y.n, x.d * y.d)
    ELSE IF FSign(x) * FSign(y) = 0 THEN NaN
    ELSE Inf(FSign(x) * FSign(y))

FDiv(x, y) ==
    IF IsNaN(x) \/ IsNaN(y) THEN NaN
    ELSE IF IsFin(y) /\ y.n = 0
         THEN (IF FSign(x) = 0 THEN NaN ELSE Inf(FSign(x)))
    ELSE IF IsFin(x) /\ IsFin(y) THEN Fin(x.n * y.d, x.d * y.n)
    ELSE IF IsFin(x) THEN Fin(0, 1)
    ELSE IF IsFin(y) THEN Inf(FSign(x) * FSign(y))
    ELSE NaN

FGt(x, y) ==
    /\ ~IsNaN(x)
    /\ ~IsNaN(y)
    /\ IF IsFin(x) /\ IsFin(y) THEN x.n * y.d > y.n * x.d
       ELSE IF IsFin(x) THEN y.n < 0
       ELSE IF IsFin(y) THEN x.n > 0
       ELSE x.n > y.n

FLt(x, y) == FGt(y, x)

FGe(x, y) == ~IsNaN(x) /\ ~IsNaN(y) /\ ~FGt(y, x)

(* round(x, 1) on a numpy.float64: round-half-even of 10*x, over 10.       *)
RoundHalfEven(x) ==
    LET q == x.n \div x.d
        r == x.n - q * x.d
    IN  IF 2 * r < x.d THEN q
        ELSE IF 2 * r > x.d THEN q + 1
        ELSE IF q % 2 = 0 THEN q ELSE q + 1

Round1(x) == IF IsFin(x) THEN Fin(RoundHalfEven(FMul(x, Fin(10, 1))), 10) ELSE x

IMin(a, b) == IF a < b THEN a ELSE b

-----------------------------------------------------------------------------
(* Data frames.  A frame is the candle series plus the indicator columns   *)
(* of its last row (the only row main.py reads them from).  The indicator  *)
(* library is external: its outputs are inputs of the model.               *)

Candle(h, l, c) == [High |-> h, Low |-> l, Close |-> c]

Frame(cs, e50, e200, atr, adx) ==
    [candles |-> cs, EMA50 |-> e50, EMA200 |-> e200, ATR |-> atr, ADX |-> adx]

(* df.iloc[-1]: the last row, with its indicator columns.                  *)
LastRow(f) ==
    LET c == f.candles[Len(f.candles)]
    IN  [High |-> c.High, Low |-> c.Low, Close |-> c.Close,
         EMA50 |-> f.EMA50, EMA200 |-> f.EMA200, ATR |-> f.ATR, ADX |-> f.ADX]

(* A result that may be an exception instead of a value.                   *)
Ok(v) == [raised |-> FALSE, value |-> v]

Raise == [raised |-> TRUE, value |-> FALSE]


-----------------------------------------------------------------------------
(* liquidity_sweep (main.py 142-152).                                      *)

(* df[col].rolling(20).max().iloc[i-1] for 1-based position i: NaN until   *)
(* the window holds ROLL_WINDOW observations, NaN if one of them is NaN.   *)
RollWindow(cs, i) == {cs[j] : j \in (i - ROLL_WINDOW + 1)..i}

RollMax(cs, i) ==
    IF i < ROLL_WINDOW THEN NaN
    ELSE LET W == {c.High : c \in RollWindow(cs, i)}
         IN  IF \E x \in W : IsNaN(x) THEN NaN
             ELSE CHOOSE x \in W : \A y \in W : FGe(x, y)

RollMin(cs, i) ==
    IF i < ROLL_WINDOW THEN NaN
    ELSE LET W == {c.Low : c \in RollWindow(cs, i)}
         IN  IF \E x \in W : IsNaN(x) THEN NaN
             ELSE CHOOSE x \in W : \A y \in W : FGe(y, x)

(* A series with fewer than two candles has no iloc[-2]: IndexError.       *)
liquidity_sweep(f) ==
    LET cs == f.candles
        n  == Len(cs)
    IN  IF n < 2 THEN Raise
        ELSE LET high_roll  == RollMax(cs, n - 1)
                 low_roll   == RollMin(cs, n - 1)
                 last       == cs[n]
                 sweep_high == FGt(last.High, high_roll) /\ FLt(last.Close, high_roll)
                 sweep_low  == FLt(last.Low, low_roll) /\ FGt(last.Close, low_roll)
             IN  Ok(sweep_high \/ sweep_low)

-----------------------------------------------------------------------------
(* trend (main.py 157-174), after both fetches succeeded: the direction    *)
(* from the last rows of the 1h and the 15m frame.                         *)

trend_or(h1, m15) ==
    LET h == LastRow(h1)
        m == LastRow(m15)
        bullish == FGt(h.EMA50, h.EMA200) \/ FGt(m.EMA50, m.EMA200)
        bearish == FLt(h.EMA50, h.EMA200) \/ FLt(m.EMA50, m.EMA200)
    IN  IF bullish THEN "BUY" ELSE IF bearish THEN "SELL" ELSE "NONE"

trend(h1, m15) ==
    LET h == LastRow(h1)
        m == LastRow(m15)
        bullish == FGt(h.EMA50, h.EMA200) /\ FGt(m.EMA50, m.EMA200)
        bearish == FLt(h.EMA50, h.EMA200) /\ FLt(m.EMA50, m.EMA200)
    IN  IF bullish THEN "BUY" ELSE IF bearish THEN "SELL" ELSE "NONE"

-----------------------------------------------------------------------------
(* confidence (main.py 179-194).                                           *)

confidence_adx_flipped(f) ==
    LET last        == LastRow(f)
        s1          == BASE_SCORE + (IF FLt(last.ADX, Fin(ADX_MIN, 1)) THEN 20 ELSE 0)
        atr_percent == FMul(FDiv(last.ATR, last.Close), Fin(100, 1))
        s2          == s1 + (IF FGt(atr_percent, Fin(7, 10)) THEN 15 ELSE 0)
        sweep       == liquidity_sweep(f)
    IN  IF sweep.raised THEN Raise
        ELSE Ok(IMin(s2 + (IF sweep.value THEN 15 ELSE 0), SCORE_CAP))

confidence(f) ==
    LET last        == LastRow(f)
        s1          == BASE_SCORE + (IF FGt(last.ADX, Fin(ADX_MIN, 1)) THEN 20 ELSE 0)
        atr_percent == FMul(FDiv(last.ATR, last.Close), Fin(100, 1))
        s2          == s1 + (IF FGt(atr_percent, Fin(7, 10)) THEN 15 ELSE 0)
        sweep       == liquidity_sweep(f)
    IN  IF sweep.raised THEN Raise
        ELSE Ok(IMin(s2 + (IF sweep.value THEN 15 ELSE 0), SCORE_CAP))

-----------------------------------------------------------------------------
(* build_trade (main.py 199-215).                                          *)

RISK_PER_TRADE == Fin(1, 100)

TradeOf(entry, stop, target, conf) ==
    LET risk_amount == FMul(Fin(ACCOUNT_BALANCE, 1), RISK_PER_TRADE)
        size        == FDiv(risk_amount, FAbs(FSub(entry, stop)))
        profit      == FMul(FAbs(FSub(target, entry)), size)
    IN  [raised |-> conf.raised, entry |-> entry, stop |-> stop, target |-> target,
         size |-> size, profit |-> profit, conf |-> conf.value]

build_trade_buy_only(dir, f) ==
    LET last  == LastRow(f)
        entry == last.Close
        atr   == last.ATR
    IN  TradeOf(entry, FSub(entry, atr), FAdd(entry, FMul(atr, Fin(RR_RATIO, 1))),
                confidence(f))

build_trade(dir, f) ==
    LET last   == LastRow(f)
        entry  == last.Close
        atr    == last.ATR
        stop   == IF dir = "BUY" THEN FSub(entry, atr) ELSE FAdd(entry, atr)
        target == IF dir = "BUY" THEN FAdd(entry, FMul(atr, Fin(RR_RATIO, 1)))
                  ELSE FSub(entry, FMul(atr, Fin(RR_RATIO, 1)))
    IN  TradeOf(entry, stop, target, confidence(f))

(* f"{direction}-{round(entry,1)}": the key is the direction and the       *)
(* entry rounded to one decimal; the text of a float names its value.      *)
signal_id(dir, entry) == <<dir, Round1(entry)>>


-----------------------------------------------------------------------------
(* Gates of run() (main.py 103-111, 116-137).                              *)

(* in_kill_zone: the London hour is an input.                              *)
in_kill_zone(hour) == 7 <= hour /\ hour <= 16

(* high_impact_news: failed is an exception anywhere in the lookup (the    *)
(* bare except returns False); diffs are the distances in minutes of the   *)
(* High-impact events from now.                                            *)
high_impact_news(failed, diffs) == ~failed /\ \E diff \in diffs : diff < 45

-----------------------------------------------------------------------------
(* Bounds and input sets.                                                  *)

MaxCloseStep == 3

MaxAtrStep == 2

MaxEmaStep == 1

MaxLen == 22

P(x) == Fin(x, 1)

FillCandle == Candle(P(2056), P(2054), P(2055))

SpikeCandle == Candle(P(2058), P(2052), P(2055))

(* n candles, all FillCandle but candle p (spike) and the last one.        *)
MkSeries(n, spike, p, last) ==
    [i \in 1..n |-> IF i = n THEN last ELSE IF i = p THEN spike ELSE FillCandle]

ClosePrices == {Fin(205500 + 5 * i, 100) : i \in 0..MaxCloseStep}

AtrValues == {NaN, P(0)} \cup {P(8 * i) : i \in 1..MaxAtrStep}

AdxValues == {NaN, P(20), P(25), P(30)}

EmaValues == {NaN} \cup {P(2040 + 10 * i) : i \in 0..MaxEmaStep}

(* Last candles of the 15m frame: no wick, or a wick above the window's    *)
(* high with the close back inside.                                        *)
LastCandles == {Candle(h, P(2054), c) : h \in {P(2056), P(2057)}, c \in ClosePrices}

MissingCandle == Candle(NaN, NaN, NaN)

RunSeries(last) == MkSeries(ROLL_WINDOW + 1, FillCandle, 1, last)

EmaPairs == {<<P(2050), P(2040)>>, <<P(2040), P(2050)>>, <<P(2050), P(2050)>>, <<NaN, P(2040)>>}

H1Frames == {Frame(RunSeries(FillCandle), e[1], e[2], P(8), P(30)) : e \in EmaPairs}

M15Frames ==
    {Frame(RunSeries(c), e[1], e[2], atr, adx) :
        c \in LastCandles, e \in EmaPairs, atr \in AtrValues, adx \in {NaN, P(30)}}

Hours == 0..23

NewsDiffs == {{}, {44}, {45}, {44, 600}}


-----------------------------------------------------------------------------
(* run() (main.py 232-299).                                                *)

NewCycle(key) ==
    [kz |-> "unchecked", news |-> "unchecked", trend_called |-> FALSE,
     fetch_failed |-> FALSE, key_at_start |-> key]

RunInit ==
    /\ pc = "init"
    /\ last_signal = <<>>
    /\ direction = "-"
    /\ df = <<>>
    /\ cyc = NewCycle(<<>>)
    /\ outbox = <<>>
    /\ trade = <<>>
    /\ signals = <<>>

(* The two most recent signal notifications.                               *)
Push(w, x) == IF Len(w) < 2 THEN Append(w, x) ELSE <<w[2], x>>

(* main.py 252-254: outside the kill zone the cycle ends (continue).       *)
kill_zone_ignored(in_zone) == "news"

after_kill_zone(in_zone) == IF ~in_zone THEN "loop" ELSE "news"

(* main.py 256-259: with news imminent the cycle ends (continue).          *)
after_news(imminent) == IF imminent THEN "loop" ELSE "trend"

(* main.py 263-265: direction NONE ends the cycle (continue).              *)
after_trend(dir) == IF dir = "NONE" THEN "loop" ELSE "build"

(* main.py 271: the guard of the signal notification.                      *)
should_emit_no_dedup(sid, last, conf) == conf >= CONF_THRESHOLD

should_emit_no_threshold(sid, last, conf) == <<sid>> # last

should_emit(sid, last, conf) == <<sid>> # last /\ conf >= CONF_THRESHOLD

(* main.py 290-299: the handler reports, sleeps and falls through to the   *)
(* next cycle.                                                             *)
after_except_reraise == "exit"

after_except == "loop"

(* main.py 234-244: the online notification, then last_signal = None.      *)
RunStart ==
    /\ pc = "init"
    /\ outbox' = Append(outbox, "online")
    /\ last_signal' = <<>>
    /\ pc' = "loop"
    /\ UNCHANGED <<direction, df, cyc, trade, signals, fnVars>>

(* main.py 246-250: a cycle starts with heartbeat(); whether the           *)
(* heartbeat is due depends on the clock.                                  *)
Heartbeat ==
    /\ pc = "loop"
    /\ \E due \in BOOLEAN :
          outbox' = IF due THEN <<"heartbeat">> ELSE <<>>
    /\ cyc' = NewCycle(last_signal)
    /\ direction' = "-"
    /\ df' = <<>>
    /\ trade' = <<>>
    /\ pc' = "kill_zone"
    /\ UNCHANGED <<last_signal, signals, fnVars>>

KillZone ==
    /\ pc = "kill_zone"
    /\ \E hour \in Hours :
          LET in_zone == in_kill_zone(hour)
          IN  /\ cyc' = [cyc EXCEPT !.kz = IF in_zone THEN "in" ELSE "out"]
              /\ pc' = after_kill_zone(in_zone)
    /\ UNCHANGED <<last_signal, direction, df, outbox, trade, signals, fnVars>>

News ==
    /\ pc = "news"
    /\ \E failed \in BOOLEAN, diffs \in NewsDiffs :
          LET imminent == high_impact_news(failed, diffs)
          IN  /\ cyc' = [cyc EXCEPT !.news = IF imminent THEN "imminent" ELSE "clear"]
              /\ outbox' = IF imminent THEN Append(outbox, "news_pause") ELSE outbox
              /\ pc' = after_news(imminent)
    /\ UNCHANGED <<last_signal, direction, df, trade, signals, fnVars>>

(* main.py 261 with 157-160, 63-74: either fetch finds the series empty    *)
(* and raises ValueError.                                                  *)
TrendFetchFails ==
    /\ pc = "trend"
    /\ cyc' = [cyc EXCEPT !.trend_called = TRUE, !.fetch_failed = TRUE]
    /\ pc' = "except"
    /\ UNCHANGED <<last_signal, direction, df, outbox, trade, signals, fnVars>>

(* main.py 261-265 with 157-174: both fetches succeed.                     *)
TrendReturns ==
    /\ pc = "trend"
    /\ \E h1 \in H1Frames, m15 \in M15Frames :
          LET dir == trend(h1, m15)
          IN  /\ direction' = dir
              /\ df' = <<m15>>
              /\ pc' = after_trend(dir)
    /\ cyc' = [cyc EXCEPT !.trend_called = TRUE]
    /\ UNCHANGED <<last_signal, outbox, trade, signals, fnVars>>

(* main.py 267-288, 299.                                                   *)
BuildTrade ==
    /\ pc = "build"
    /\ LET t   == build_trade(direction, df[1])
           sid == signal_id(direction, t.entry)
       IN  IF t.raised
           THEN /\ pc' = "except"
                /\ UNCHANGED <<last_signal, outbox, trade, signals>>
           ELSE /\ trade' = <<t>>
                /\ IF should_emit(sid, last_signal, t.conf)
                   THEN /\ outbox' = Append(outbox, "signal")
                        /\ last_signal' = <<sid>>
                        /\ signals' = Push(signals, [direction |-> direction, entry |-> t.entry])
                   ELSE UNCHANGED <<last_signal, outbox, signals>>
                /\ pc' = "loop"
    /\ UNCHANGED <<direction, df, cyc, fnVars>>

(* main.py 290-299: the crash notification, then on to the next cycle.     *)
Except ==
    /\ pc = "except"
    /\ outbox' = Append(outbox, "crash")
    /\ pc' = after_except
    /\ UNCHANGED <<last_signal, direction, df, cyc, trade, signals, fnVars>>

Init ==
    /\ RunInit
    /\ fn = "none"
    /\ arg = <<>>
    /\ ret = <<>>

Next ==
    \/ RunStart
    \/ Heartbeat
    \/ KillZone
    \/ News
    \/ TrendFetchFails
    \/ TrendReturns
    \/ BuildTrade
    \/ Except

Spec == Init /\ [][Next]_vars

(* Fairness.  run() is one sequential loop that only sleeps between its    *)
(* steps, so a step that stays possible is taken: the handler, the start  *)
(* of the next cycle and the two gate checks (weak fairness).  The gates  *)
(* read the wall clock: the London hour comes back into the kill zone     *)
(* every day and a news window lasts 90 minutes, so a loop that keeps     *)
(* asking is let through again and again (strong fairness).  Nothing is   *)
(* assumed of the supplier: a fetch may fail every time.                  *)
KillZonePasses == KillZone /\ pc' = "news"

NewsClears == News /\ pc' = "trend"

FairSpec ==
    /\ Init
    /\ [][Next]_vars
    /\ WF_vars(Except)
    /\ WF_vars(Heartbeat)
    /\ WF_vars(KillZone)
    /\ WF_vars(News)
    /\ SF_vars(KillZonePasses)
    /\ SF_vars(NewsClears)

-----------------------------------------------------------------------------
(* The pure functions on their own: the inputs are drawn at the start and  *)
(* each action applies one function to them.                               *)

(* Candles with Low <= Close <= High, as the supplier produces them.        *)
SweepLastCandles ==
    {x \in {Candle(P(h), P(l), P(c)) :
                h \in {2056, 2057, 2059}, l \in {2054, 2053, 2051},
                c \in {2052, 2055, 2056, 2058}} :
        FGe(x.High, x.Close) /\ FGe(x.Close, x.Low)}

SweepFrames ==
    {Frame(MkSeries(n, SpikeCandle, p, last), P(2050), P(2040), P(8), P(30)) :
        n \in 0..MaxLen, p \in {0, 1, 2, MaxLen - 1}, last \in SweepLastCandles}

TrendFrames ==
    {Frame(RunSeries(FillCandle), e50, e200, P(8), P(30)) :
        e50 \in EmaValues, e200 \in EmaValues}

ScoreFrames ==
    {Frame(RunSeries(c), P(2050), P(2040), atr, adx) :
        c \in LastCandles \cup {MissingCandle}, atr \in AtrValues, adx \in AdxValues}

FnInit ==
    /\ RunInit
    /\ ret = <<>>
    /\ \/ fn = "liquidity_sweep" /\ \E f \in SweepFrames : arg = <<f>>
       \/ fn = "trend" /\ \E h1 \in TrendFrames, m15 \in TrendFrames : arg = <<h1, m15>>
       \/ fn = "confidence" /\ \E f \in ScoreFrames : arg = <<f>>
       \/ fn = "build_trade" /\ \E dir \in {"BUY", "SELL"}, f \in ScoreFrames : arg = <<dir, f>>

ApplySweep ==
    /\ fn = "liquidity_sweep" /\ ret = <<>>
    /\ ret' = <<liquidity_sweep(arg[1])>>
    /\ UNCHANGED <<fn, arg, runVars>>

ApplyTrend ==
    /\ fn = "trend" /\ ret = <<>>
    /\ ret' = <<trend(arg[1], arg[2])>>
    /\ UNCHANGED <<fn, arg, runVars>>

ApplyConfidence ==
    /\ fn = "confidence" /\ ret = <<>>
    /\ ret' = <<confidence(arg[1])>>
    /\ UNCHANGED <<fn, arg, runVars>>

ApplyBuildTrade ==
    /\ fn = "build_trade" /\ ret = <<>>
    /\ ret' = <<build_trade(arg[1], arg[2])>>
    /\ UNCHANGED <<fn, arg, runVars>>

FnNext ==
    \/ ApplySweep
    \/ ApplyTrend
    \/ ApplyConfidence
    \/ ApplyBuildTrade

FnSpec == FnInit /\ [][FnNext]_vars

Applied(name) == fn = name /\ ret # <<>>


-----------------------------------------------------------------------------
(* Properties.                                                             *)

Range(q) == {q[i] : i \in 1..Len(q)}

SignalSent == "signal" \in Range(outbox)

(* x > y as real numbers, false when either is undefined.                  *)
Above(x, y) == IsFin(x) /\ IsFin(y) /\ x.n * y.d > y.n * x.d

(* The deduplication key of a signal notification.                         *)
KeyOf(sig) == <<sig.direction, Round1(sig.entry)>>

(* C1: no two consecutive signal notifications share the deduplication     *)
(* key (direction, entry rounded to one decimal), whatever cycles lie      *)
(* between them.                                                           *)
C1_NoConsecutiveDuplicate ==
    Len(signals) = 2 => KeyOf(signals[1]) # KeyOf(signals[2])

(* Two signals were sent and the current cycle, though confident enough,   *)
(* sent none: its key is that of the last signal.                          *)
C1_Witness ==
    /\ Len(signals) = 2
    /\ pc = "loop"
    /\ trade # <<>>
    /\ trade[1].conf >= CONF_THRESHOLD
    /\ ~SignalSent

BadAtr(f) == IsNaN(f.ATR) \/ (IsFin(f.ATR) /\ f.ATR.n = 0)

(* C2: when the latest row's ATR is zero or NaN, build_trade yields no     *)
(* infinite or NaN size and the cycle sends no signal notification.        *)
C2_BadAtrSuppressed ==
    (trade # <<>> /\ BadAtr(df[1])) => (IsFin(trade[1].size) /\ ~SignalSent)

UpTrend(f) == Above(f.EMA50, f.EMA200)

DownTrend(f) == Above(f.EMA200, f.EMA50)

(* C3: trend is BUY exactly when EMA50 > EMA200 on both frames, SELL       *)
(* exactly when EMA50 < EMA200 on both, NONE otherwise (disagreement,      *)
(* equality, an undefined EMA).                                            *)
C3_TrendRule ==
    Applied("trend") =>
        ret[1] = IF UpTrend(arg[1]) /\ UpTrend(arg[2]) THEN "BUY"
                 ELSE IF DownTrend(arg[1]) /\ DownTrend(arg[2]) THEN "SELL"
                 ELSE "NONE"

(* An undefined EMA on the 1h frame beside a bullish 15m frame.            *)
C3_Witness ==
    /\ Applied("trend")
    /\ IsNaN(arg[1].EMA200)
    /\ UpTrend(arg[2])
    /\ ret[1] = "NONE"

(* C4: a signal notification is sent only in a cycle whose direction is    *)
(* BUY or SELL and whose confidence is at least CONF_THRESHOLD;            *)
(* build_trade is never called with NONE.                                  *)
C4_SignalOnlyWhenActionable ==
    /\ trade # <<>> => direction \in {"BUY", "SELL"}
    /\ SignalSent =>
          /\ direction \in {"BUY", "SELL"}
          /\ trade # <<>>
          /\ confidence(df[1]).value >= CONF_THRESHOLD

C4_Witness ==
    /\ SignalSent
    /\ direction = "SELL"
    /\ trade[1].conf = 80

(* C5: for BUY and SELL, a finite entry and ATR > 0: size * |entry - stop| *)
(* is ACCOUNT_BALANCE * RISK_PER_TRADE, |target - entry| / |entry - stop|  *)
(* is RR_RATIO, stop < entry < target for BUY and the mirror for SELL.     *)
C5_FixedRiskSizing ==
    (Applied("build_trade") /\ Above(arg[2].ATR, P(0)) /\ IsFin(LastRow(arg[2]).Close)) =>
        LET t    == ret[1]
            risk == FAbs(FSub(t.entry, t.stop))
        IN  /\ FMul(t.size, risk) = Fin(ACCOUNT_BALANCE, 100)
            /\ FDiv(FAbs(FSub(t.target, t.entry)), risk) = P(RR_RATIO)
            /\ arg[1] = "BUY" => Above(t.entry, t.stop) /\ Above(t.target, t.entry)
            /\ arg[1] = "SELL" => Above(t.stop, t.entry) /\ Above(t.entry, t.target)

(* SELL at 2055 with ATR 8: stop 2063, target 2039, size 12.5, profit 200. *)
C5_Witness ==
    /\ Applied("build_trade")
    /\ arg[1] = "SELL"
    /\ ret[1].entry = P(2055)
    /\ ret[1].stop = P(2063)
    /\ ret[1].target = P(2039)
    /\ ret[1].size = Fin(25, 2)
    /\ ret[1].profit = P(200)

(* The three conditions of the score, as booleans.                         *)
Conds(f) ==
    LET last == LastRow(f)
    IN  <<Above(last.ADX, P(ADX_MIN)),
          FGt(FMul(FDiv(last.ATR, last.Close), P(100)), Fin(7, 10)),
          liquidity_sweep(f).value>>

(* b is a with exactly one more condition true.                            *)
OneMore(a, b) ==
    \E i \in 1..3 : ~a[i] /\ b[i] /\ \A j \in (1..3) \ {i} : a[j] = b[j]

(* C6: the score is in [BASE_SCORE, SCORE_CAP], and a frame with one more  *)
(* condition true never scores less.                                       *)
C6_ScoreRangeMonotonic ==
    Applied("confidence") =>
        /\ ~ret[1].raised
        /\ ret[1].value \in BASE_SCORE..SCORE_CAP
        /\ \A g \in ScoreFrames :
              OneMore(Conds(arg[1]), Conds(g)) => confidence(g).value >= ret[1].value

(* All three conditions hold.                                              *)
C6_Witness ==
    /\ Applied("confidence")
    /\ Conds(arg[1]) = <<TRUE, TRUE, TRUE>>
    /\ ret[1].value = 100

(* C8: a cycle whose fetch failed sends no signal notification, leaves     *)
(* last_signal as it was, does not end the process, and is followed by a   *)
(* cycle that calls trend() (and so fetch) again.                          *)
C8_FetchFailureSkipsCycle ==
    /\ [](cyc.fetch_failed =>
            pc # "exit" /\ ~SignalSent /\ last_signal = cyc.key_at_start)
    /\ (cyc.fetch_failed ~> (pc = "trend" /\ ~cyc.fetch_failed))

(* The fetch failed in a cycle that began with a signal already sent.      *)
C8_Witness ==
    /\ pc = "except"
    /\ cyc.fetch_failed
    /\ last_signal # <<>>

(* C9: a cycle outside the kill zone or with news imminent neither calls   *)
(* trend() nor sends a signal; a cycle that calls trend() has consulted    *)
(* both gates before.                                                      *)
C9_GatesBeforeTrend ==
    /\ (cyc.kz = "out" \/ cyc.news = "imminent") =>
          ~cyc.trend_called /\ direction = "-" /\ ~SignalSent
    /\ (pc = "trend" \/ cyc.trend_called) => cyc.kz = "in" /\ cyc.news = "clear"

C9_Witness ==
    /\ pc = "loop"
    /\ cyc.kz = "in"
    /\ cyc.news = "imminent"
    /\ outbox[Len(outbox)] = "news_pause"

(* The sweep as the claim words it: the window is the ROLL_WINDOW candles  *)
(* ending at the second-to-last one.                                       *)
SweepByDefinition(cs) ==
    LET n == Len(cs)
    IN  /\ n >= ROLL_WINDOW + 1
        /\ LET W    == {cs[j] : j \in (n - ROLL_WINDOW)..(n - 1)}
               last == cs[n]
           IN  \/ /\ \A c \in W : Above(last.High, c.High)
                  /\ \E c \in W : Above(c.High, last.Close)
               \/ /\ \A c \in W : Above(c.Low, last.Low)
                  /\ \E c \in W : Above(last.Close, c.Low)

(* C10: liquidity_sweep is true exactly when the last candle pierces the   *)
(* window's maximum High (or minimum Low) and closes back inside; on fewer *)
(* than ROLL_WINDOW + 1 candles it returns false and does not raise.       *)
C10_SweepRule ==
    Applied("liquidity_sweep") =>
        /\ ~ret[1].raised
        /\ ret[1].value = SweepByDefinition(arg[1].candles)

=============================================================================
